---------------------------- MODULE Spec2Model ----------------------------
(***************************************************************************)
(* Model of lv_misc/lv_font.c: font tables linked into chains through      *)
(* next_page, the composition calls lv_font_add / lv_font_remove, the      *)
(* chain queries, and the per-table continuous / sparse lookups.           *)
(*                                                                         *)
(* A uint32_t is the pair <<hi, lo>> of its 16-bit halves, so that the     *)
(* arithmetic modulo 2^32 of lv_font_codeCompare is computed exactly.      *)
(***************************************************************************)
EXTENDS Integers, Sequences, FiniteSets

VARIABLES
    next_page,  \* next_page[f]: the next_page field of font table f
    status,     \* "ok": running; "hang": a loop never ends; "trap"/"wild": a NULL dereference happened
    last        \* the last call made: its name, arguments and return value

vars == <<next_page, status, last>>

\* Number of font tables that exist.
NumFonts == 3

NULL == 0

Fonts == 1..NumFonts

FontPtr == Fonts \cup {NULL}

-----------------------------------------------------------------------------
(* uint32_t values *)

U32(n) == <<n \div 65536, n % 65536>>

\* 0x80000002
Big == <<32768, 2>>

\* a < b on uint32_t
ULt(a, b) == a[1] < b[1] \/ (a[1] = b[1] /\ a[2] < b[2])

\* a - b on uint32_t, modulo 2^32
USub(a, b) ==
    LET borrow == IF a[2] < b[2] THEN 1 ELSE 0
    IN  <<(a[1] - b[1] - borrow) % 65536, (a[2] - b[2]) % 65536>>

\* the conversion of a uint32_t to int32_t (two's complement)
ToInt32(u) ==
    IF u[1] >= 32768 THEN (u[1] - 65536) * 65536 + u[2]
    ELSE u[1] * 65536 + u[2]

\* the value of a small uint32_t as a number (an array index)
ToNat(u) == u[1] * 65536 + u[2]

-----------------------------------------------------------------------------
(* The font tables (lv_font_t): read-only except for next_page. *)

Dsc(w, i) == [w_px |-> w, glyph_index |-> i]

Templates == <<
    \* a sparse page over 65..200 holding 65, 90 and 200
    [unicode_first |-> U32(65), unicode_last |-> U32(200), layout |-> "sparse",
     unicode_list |-> <<U32(65), U32(90), U32(200)>>, glyph_cnt |-> 3,
     glyph_dsc |-> <<Dsc(5, 0), Dsc(6, 10), Dsc(8, 22)>>,
     monospace |-> 0, bpp |-> 2],
    \* a continuous monospace page over 65..67; glyph 66 is zero pixels wide
    [unicode_first |-> U32(65), unicode_last |-> U32(67), layout |-> "continuous",
     unicode_list |-> <<>>, glyph_cnt |-> 3,
     glyph_dsc |-> <<Dsc(7, 0), Dsc(0, 14), Dsc(9, 14)>>,
     monospace |-> 12, bpp |-> 4],
    \* a sparse page whose code points are 2^31 or more apart
    [unicode_first |-> U32(1), unicode_last |-> Big, layout |-> "sparse",
     unicode_list |-> <<U32(1), Big>>, glyph_cnt |-> 2,
     glyph_dsc |-> <<Dsc(3, 0), Dsc(4, 6)>>,
     monospace |-> 0, bpp |-> 8]
>>

\* The content of the font tables; glyph_bitmap is the address of the bitmap buffer.
FontTable ==
  [f \in Fonts |->
    LET t == Templates[((f - 1) % Len(Templates)) + 1]
    IN  [unicode_first |-> t.unicode_first, unicode_last |-> t.unicode_last,
         layout |-> t.layout, unicode_list |-> t.unicode_list,
         glyph_cnt |-> t.glyph_cnt, glyph_dsc |-> t.glyph_dsc,
         monospace |-> t.monospace, bpp |-> t.bpp,
         glyph_bitmap |-> 4096 * f]]

Font(f) == FontTable[f]

\* The code points the calls are made with.
Letters == {U32(64), U32(65), U32(66), U32(90), U32(1), Big}

-----------------------------------------------------------------------------
(* Per-table lookups *)

lv_font_codeCompare(pRef, pElement) == ToInt32(USub(pRef, pElement))

\* Binary search of key in list[base .. base+n-1] (1-based positions);
\* the position found, or 0 for a NULL result.
RECURSIVE lv_bsearch(_, _, _, _)
lv_bsearch(key, list, base, n) ==
    IF n = 0 THEN 0
    ELSE LET middle == base + (n \div 2)
             c == lv_font_codeCompare(key, list[middle])
         IN  IF c > 0
             THEN lv_bsearch(key, list, middle + 1,
                             (n \div 2) - (IF n % 2 = 0 THEN 1 ELSE 0))
             ELSE IF c < 0
             THEN lv_bsearch(key, list, base, n \div 2)
             ELSE middle

OutOfRange(font, unicode_letter) ==
    ULt(unicode_letter, Font(font).unicode_first)
    \/ ULt(Font(font).unicode_last, unicode_letter)

lv_font_get_bitmap_continuous(font, unicode_letter) ==
    IF OutOfRange(font, unicode_letter) THEN NULL
    ELSE LET index == ToNat(USub(unicode_letter, Font(font).unicode_first))
         IN  Font(font).glyph_bitmap + Font(font).glyph_dsc[index + 1].glyph_index

lv_font_get_bitmap_sparse(font, unicode_letter) ==
    IF OutOfRange(font, unicode_letter) THEN NULL
    ELSE LET pUnicode == lv_bsearch(unicode_letter, Font(font).unicode_list,
                                    1, Font(font).glyph_cnt)
         IN  IF pUnicode # 0
             THEN Font(font).glyph_bitmap + Font(font).glyph_dsc[pUnicode].glyph_index
             ELSE NULL

lv_font_get_width_continuous(font, unicode_letter) ==
    IF OutOfRange(font, unicode_letter) THEN -1
    ELSE LET index == ToNat(USub(unicode_letter, Font(font).unicode_first))
         IN  Font(font).glyph_dsc[index + 1].w_px

lv_font_get_width_sparse(font, unicode_letter) ==
    IF OutOfRange(font, unicode_letter) THEN -1
    ELSE LET pUnicode == lv_bsearch(unicode_letter, Font(font).unicode_list,
                                    1, Font(font).glyph_cnt)
         IN  IF pUnicode # 0
             THEN Font(font).glyph_dsc[pUnicode].w_px
             ELSE -1

\* font->get_bitmap(font, letter) and font->get_width(font, letter)
get_bitmap(font, letter) ==
    IF Font(font).layout = "sparse" THEN lv_font_get_bitmap_sparse(font, letter)
    ELSE lv_font_get_bitmap_continuous(font, letter)

get_width(font, letter) ==
    IF Font(font).layout = "sparse" THEN lv_font_get_width_sparse(font, letter)
    ELSE lv_font_get_width_continuous(font, letter)

-----------------------------------------------------------------------------
(* Chain queries.  A query returns [st, v]: st = "ok" and the value v, or  *)
(* st = "hang" when its while loop comes back to a table it has already    *)
(* visited (nothing changes during the walk, so it then never ends).       *)

Ret(v) == [st |-> "ok", v |-> v]

Hang == [st |-> "hang", v |-> 0]

\* the conversion of an int16_t to the uint8_t / bool return type
ToUint8(w) == w % 256

RECURSIVE is_monospace_loop(_, _, _)
is_monospace_loop(font_i, letter, seen) ==
    IF font_i = NULL THEN Ret(0)
    ELSE IF font_i \in seen THEN Hang
    ELSE LET w == get_width(font_i, letter)
         IN  IF w >= 0
             THEN (IF Font(font_i).monospace # 0 THEN Ret(1) ELSE Ret(0))
             ELSE is_monospace_loop(next_page[font_i], letter, seen \cup {font_i})

lv_font_is_monospace(font_p, letter) == is_monospace_loop(font_p, letter, {})

RECURSIVE get_bitmap_loop(_, _, _)
get_bitmap_loop(font_i, letter, seen) ==
    IF font_i = NULL THEN Ret(NULL)
    ELSE IF font_i \in seen THEN Hang
    ELSE LET bitmap == get_bitmap(font_i, letter)
         IN  IF bitmap # NULL THEN Ret(bitmap)
             ELSE get_bitmap_loop(next_page[font_i], letter, seen \cup {font_i})

\* Mutant: the walk does not stop at the first hit; the last hit wins.
RECURSIVE get_bitmap_lasthit_loop(_, _, _, _)
get_bitmap_lasthit_loop(font_i, letter, seen, found) ==
    IF font_i = NULL THEN Ret(found)
    ELSE IF font_i \in seen THEN Hang
    ELSE LET bitmap == get_bitmap(font_i, letter)
         IN  get_bitmap_lasthit_loop(next_page[font_i], letter, seen \cup {font_i},
                                     IF bitmap # NULL THEN bitmap ELSE found)

lv_font_get_bitmap_lasthit(font_p, letter) ==
    get_bitmap_lasthit_loop(font_p, letter, {}, NULL)

lv_font_get_bitmap(font_p, letter) == get_bitmap_loop(font_p, letter, {})

RECURSIVE get_width_loop(_, _, _)
get_width_loop(font_i, letter, seen) ==
    IF font_i = NULL THEN Ret(0)
    ELSE IF font_i \in seen THEN Hang
    ELSE LET w == get_width(font_i, letter)
         IN  IF w >= 0
             THEN LET m == Font(font_i).monospace
                  IN  Ret(ToUint8(IF m # 0 THEN m ELSE w))
             ELSE get_width_loop(next_page[font_i], letter, seen \cup {font_i})

\* Mutant: the monospace value is read from the chain head, not the hit table.
RECURSIVE get_width_headmono_loop(_, _, _, _)
get_width_headmono_loop(font_p, font_i, letter, seen) ==
    IF font_i = NULL THEN Ret(0)
    ELSE IF font_i \in seen THEN Hang
    ELSE LET w == get_width(font_i, letter)
         IN  IF w >= 0
             THEN LET m == Font(font_p).monospace
                  IN  Ret(ToUint8(IF m # 0 THEN m ELSE w))
             ELSE get_width_headmono_loop(font_p, next_page[font_i], letter,
                                          seen \cup {font_i})

lv_font_get_width_headmono(font_p, letter) ==
    get_width_headmono_loop(font_p, font_p, letter, {})

lv_font_get_width(font_p, letter) == get_width_loop(font_p, letter, {})

RECURSIVE get_real_width_loop(_, _, _)
get_real_width_loop(font_i, letter, seen) ==
    IF font_i = NULL THEN Ret(0)
    ELSE IF font_i \in seen THEN Hang
    ELSE LET w == get_width(font_i, letter)
         IN  IF w >= 0 THEN Ret(ToUint8(w))
             ELSE get_real_width_loop(next_page[font_i], letter, seen \cup {font_i})

\* Mutant: an exhausted chain returns -1, as the per-table lookups do.
RECURSIVE get_real_width_sentinel_loop(_, _, _)
get_real_width_sentinel_loop(font_i, letter, seen) ==
    IF font_i = NULL THEN Ret(ToUint8(-1))
    ELSE IF font_i \in seen THEN Hang
    ELSE LET w == get_width(font_i, letter)
         IN  IF w >= 0 THEN Ret(ToUint8(w))
             ELSE get_real_width_sentinel_loop(next_page[font_i], letter,
                                               seen \cup {font_i})

lv_font_get_real_width_sentinel(font_p, letter) ==
    get_real_width_sentinel_loop(font_p, letter, {})

lv_font_get_real_width(font_p, letter) == get_real_width_loop(font_p, letter, {})

RECURSIVE get_bpp_loop(_, _, _)
get_bpp_loop(font_i, letter, seen) ==
    IF font_i = NULL THEN Ret(0)
    ELSE IF font_i \in seen THEN Hang
    ELSE IF ~OutOfRange(font_i, letter) THEN Ret(Font(font_i).bpp)
    ELSE get_bpp_loop(next_page[font_i], letter, seen \cup {font_i})

\* Mutant: the bpp of the first table that has the glyph.
RECURSIVE get_bpp_byglyph_loop(_, _, _)
get_bpp_byglyph_loop(font_i, letter, seen) ==
    IF font_i = NULL THEN Ret(0)
    ELSE IF font_i \in seen THEN Hang
    ELSE IF get_width(font_i, letter) >= 0 THEN Ret(Font(font_i).bpp)
    ELSE get_bpp_byglyph_loop(next_page[font_i], letter, seen \cup {font_i})

lv_font_get_bpp_byglyph(font, letter) == get_bpp_byglyph_loop(font, letter, {})

lv_font_get_bpp(font, letter) == get_bpp_loop(font, letter, {})

-----------------------------------------------------------------------------
(* Composition.  lv_font_add and lv_font_remove give the outcomes of the   *)
(* call: [st, np], np being next_page after it.                            *)

\* The last table of parent's chain, or NULL when the walk never ends.
RECURSIVE add_walk(_, _)
add_walk(parent, seen) ==
    IF next_page[parent] = NULL THEN parent
    ELSE IF next_page[parent] \in seen THEN NULL
    ELSE add_walk(next_page[parent], seen \cup {next_page[parent]})

\* Mutant: no walk to the last table; child is linked right after parent.
lv_font_add_nowalk(child, parent) ==
    IF parent = NULL THEN {[st |-> "ok", np |-> next_page]}
    ELSE {[st |-> "ok", np |-> [next_page EXCEPT ![parent] = child]]}

lv_font_add(child, parent) ==
    IF parent = NULL THEN {[st |-> "ok", np |-> next_page]}
    ELSE LET tail == add_walk(parent, {parent})
         IN  IF tail = NULL THEN {[st |-> "hang", np |-> next_page]}
             ELSE {[st |-> "ok", np |-> [next_page EXCEPT ![tail] = child]]}

\* The walk of lv_font_remove: the table whose next_page is child ("found"),
\* or parent became NULL and is dereferenced ("null"), or the walk never ends.
RECURSIVE remove_walk(_, _, _)
remove_walk(parent, child, seen) ==
    IF parent = NULL THEN [how |-> "null", at |-> NULL]
    ELSE IF next_page[parent] = child THEN [how |-> "found", at |-> parent]
    ELSE IF parent \in seen THEN [how |-> "hang", at |-> NULL]
    ELSE remove_walk(next_page[parent], child, seen \cup {parent})

\* What reading NULL->next_page can do: the access traps; or it reads some
\* word of memory and the walk goes on through memory that holds no table,
\* never ending ("hang") or ending with a store near address 0 ("wild").
NullDeref == {"trap", "hang", "wild"}

\* Mutant: the removed table's own link is cleared too.
lv_font_remove_nulling(child, parent) ==
    IF parent = NULL \/ child = NULL THEN {[st |-> "ok", np |-> next_page]}
    ELSE LET w == remove_walk(parent, child, {})
         IN  IF w.how = "found"
             THEN {[st |-> "ok", np |-> [next_page EXCEPT ![w.at] = next_page[child],
                                                          ![child] = NULL]]}
             ELSE IF w.how = "hang" THEN {[st |-> "hang", np |-> next_page]}
             ELSE {[st |-> s, np |-> next_page] : s \in NullDeref}

\* Mutant: the walk stops at the end of the chain and the call returns.
lv_font_remove_guarded(child, parent) ==
    IF parent = NULL \/ child = NULL THEN {[st |-> "ok", np |-> next_page]}
    ELSE LET w == remove_walk(parent, child, {})
         IN  IF w.how = "found"
             THEN {[st |-> "ok", np |-> [next_page EXCEPT ![w.at] = next_page[child]]]}
             ELSE IF w.how = "hang" THEN {[st |-> "hang", np |-> next_page]}
             ELSE {[st |-> "ok", np |-> next_page]}

\* Mutant: the two sides of the splice are swapped
\* (child->next_page = parent->next_page).
lv_font_remove_swapped(child, parent) ==
    IF parent = NULL \/ child = NULL THEN {[st |-> "ok", np |-> next_page]}
    ELSE LET w == remove_walk(parent, child, {})
         IN  IF w.how = "found"
             THEN {[st |-> "ok", np |-> [next_page EXCEPT ![child] = next_page[w.at]]]}
             ELSE IF w.how = "hang" THEN {[st |-> "hang", np |-> next_page]}
             ELSE {[st |-> s, np |-> next_page] : s \in NullDeref}

lv_font_remove(child, parent) ==
    IF parent = NULL \/ child = NULL THEN {[st |-> "ok", np |-> next_page]}
    ELSE LET w == remove_walk(parent, child, {})
         IN  IF w.how = "found"
             THEN {[st |-> "ok", np |-> [next_page EXCEPT ![w.at] = next_page[child]]]}
             ELSE IF w.how = "hang" THEN {[st |-> "hang", np |-> next_page]}
             ELSE {[st |-> s, np |-> next_page] : s \in NullDeref}

-----------------------------------------------------------------------------
(* The state machine *)

Call(op, font, child, letter, ret) ==
    [op |-> op, font |-> font, child |-> child, letter |-> letter,
     elem |-> U32(0), ret |-> ret]

Init ==
    /\ next_page = [f \in Fonts |-> NULL]
    /\ status = "ok"
    /\ last = Call("init", NULL, NULL, U32(0), 0)

Query(op, r, font, letter) ==
    /\ status' = r.st
    /\ last' = Call(op, font, NULL, letter, r.v)
    /\ UNCHANGED next_page

Add ==
    \E child \in FontPtr, parent \in FontPtr :
        /\ status = "ok"
        /\ \E o \in lv_font_add(child, parent) :
               /\ next_page' = o.np
               /\ status' = o.st
        /\ last' = Call("add", parent, child, U32(0), 0)

Remove ==
    \E child \in FontPtr, parent \in FontPtr :
        /\ status = "ok"
        /\ \E o \in lv_font_remove(child, parent) :
               /\ next_page' = o.np
               /\ status' = o.st
        /\ last' = Call("remove", parent, child, U32(0), 0)

IsMonospace ==
    \E font \in FontPtr, letter \in Letters :
        /\ status = "ok"
        /\ Query("is_monospace", lv_font_is_monospace(font, letter), font, letter)

GetBitmap ==
    \E font \in FontPtr, letter \in Letters :
        /\ status = "ok"
        /\ Query("get_bitmap", lv_font_get_bitmap(font, letter), font, letter)

GetWidth ==
    \E font \in FontPtr, letter \in Letters :
        /\ status = "ok"
        /\ Query("get_width", lv_font_get_width(font, letter), font, letter)

GetRealWidth ==
    \E font \in FontPtr, letter \in Letters :
        /\ status = "ok"
        /\ Query("get_real_width", lv_font_get_real_width(font, letter), font, letter)

GetBpp ==
    \E font \in FontPtr, letter \in Letters :
        /\ status = "ok"
        /\ Query("get_bpp", lv_font_get_bpp(font, letter), font, letter)

Next ==
    \/ Add
    \/ Remove
    \/ IsMonospace
    \/ GetBitmap
    \/ GetWidth
    \/ GetRealWidth
    \/ GetBpp

Spec == Init /\ [][Next]_vars

-----------------------------------------------------------------------------
(* The per-table lookups and the comparator called on their own. *)

\* The values the comparator is called with.
CmpVals == Letters \cup {U32(0), <<32767, 65535>>, <<32768, 0>>, <<65535, 65535>>}

SparseFonts == {f \in Fonts : Font(f).layout = "sparse"}

ContinuousFonts == {f \in Fonts : Font(f).layout = "continuous"}

GetWidthSparse ==
    \E font \in SparseFonts, letter \in Letters :
        /\ status = "ok"
        /\ last' = Call("get_width_sparse", font, NULL, letter,
                        lv_font_get_width_sparse(font, letter))
        /\ UNCHANGED <<next_page, status>>

GetBitmapSparse ==
    \E font \in SparseFonts, letter \in Letters :
        /\ status = "ok"
        /\ last' = Call("get_bitmap_sparse", font, NULL, letter,
                        lv_font_get_bitmap_sparse(font, letter))
        /\ UNCHANGED <<next_page, status>>

GetWidthContinuous ==
    \E font \in ContinuousFonts, letter \in Letters :
        /\ status = "ok"
        /\ last' = Call("get_width_continuous", font, NULL, letter,
                        lv_font_get_width_continuous(font, letter))
        /\ UNCHANGED <<next_page, status>>

GetBitmapContinuous ==
    \E font \in ContinuousFonts, letter \in Letters :
        /\ status = "ok"
        /\ last' = Call("get_bitmap_continuous", font, NULL, letter,
                        lv_font_get_bitmap_continuous(font, letter))
        /\ UNCHANGED <<next_page, status>>

CodeCompare ==
    \E ref \in CmpVals, element \in CmpVals :
        /\ status = "ok"
        /\ last' = [Call("codeCompare", NULL, NULL, ref,
                         lv_font_codeCompare(ref, element)) EXCEPT !.elem = element]
        /\ UNCHANGED <<next_page, status>>

NextTable ==
    \/ GetWidthSparse
    \/ GetBitmapSparse
    \/ GetWidthContinuous
    \/ GetBitmapContinuous
    \/ CodeCompare

SpecTable == Init /\ [][NextTable]_vars

-----------------------------------------------------------------------------
(* Chains, as the claims speak of them. *)

Range(q) == {q[i] : i \in 1..Len(q)}

Min(S) == CHOOSE i \in S : \A j \in S : i <= j

\* The tables reached from head through np, in link order, up to NULL or
\* up to the first table that comes back.
RECURSIVE ChainFrom(_, _, _)
ChainFrom(np, f, acc) ==
    IF f = NULL \/ f \in Range(acc) THEN acc
    ELSE ChainFrom(np, np[f], Append(acc, f))

Chain(np, head) == ChainFrom(np, head, <<>>)

NullTerminated(np, head) ==
    head = NULL \/ np[Chain(np, head)[Len(Chain(np, head))]] = NULL

Acyclic(np) == \A f \in Fonts : NullTerminated(np, f)

\* child is the next_page of a table reachable from parent
Linked(np, child, parent) == \E p \in Range(Chain(np, parent)) : np[p] = child

Contains(f, letter) ==
    /\ ~ULt(letter, Font(f).unicode_first)
    /\ ~ULt(Font(f).unicode_last, letter)

\* positions of the chain of the last query whose table has the glyph
WidthHits == {i \in 1..Len(Chain(next_page, last.font)) :
                 get_width(Chain(next_page, last.font)[i], last.letter) >= 0}

BitmapHits == {i \in 1..Len(Chain(next_page, last.font)) :
                  get_bitmap(Chain(next_page, last.font)[i], last.letter) # NULL}

RangeHits == {i \in 1..Len(Chain(next_page, last.font)) :
                 Contains(Chain(next_page, last.font)[i], last.letter)}

FirstWidthHit == Chain(next_page, last.font)[Min(WidthHits)]

FirstBitmapHit == Chain(next_page, last.font)[Min(BitmapHits)]

Returned(op) == status = "ok" /\ last.op = op

-----------------------------------------------------------------------------
\* C1: a chain query that finds the glyph answers from the first table in
\* link order whose own lookup hits: get_bitmap returns that table's bitmap,
\* get_real_width that table's glyph width, and get_width a width of that
\* table (its glyph width or its monospace value), never a later table's.
C1_FirstHit ==
    /\ Returned("get_bitmap") /\ BitmapHits # {}
           => last.ret = get_bitmap(FirstBitmapHit, last.letter)
    /\ Returned("get_real_width") /\ WidthHits # {}
           => last.ret = get_width(FirstWidthHit, last.letter)
    /\ Returned("get_width") /\ WidthHits # {}
           => last.ret \in {get_width(FirstWidthHit, last.letter),
                            Font(FirstWidthHit).monospace}

\* Two tables of the chain both have the glyph, with different bitmaps, and
\* the earlier one's was returned.
C1_Witness ==
    /\ Returned("get_bitmap")
    /\ \E i, j \in BitmapHits :
           /\ i < j
           /\ last.ret = get_bitmap(Chain(next_page, last.font)[i], last.letter)
           /\ last.ret # get_bitmap(Chain(next_page, last.font)[j], last.letter)

C3_Monospace ==
    /\ Returned("get_width") /\ WidthHits # {}
           => last.ret = IF Font(FirstWidthHit).monospace # 0
                         THEN Font(FirstWidthHit).monospace
                         ELSE get_width(FirstWidthHit, last.letter)
    /\ Returned("get_real_width") /\ WidthHits # {}
           => last.ret = get_width(FirstWidthHit, last.letter)

\* get_width returned the monospace value of a hit table that is not the
\* chain head, the head having another monospace value and the glyph
\* another width.
C3_Witness ==
    /\ Returned("get_width")
    /\ WidthHits # {}
    /\ FirstWidthHit # last.font
    /\ Font(FirstWidthHit).monospace # 0
    /\ Font(FirstWidthHit).monospace # Font(last.font).monospace
    /\ get_width(FirstWidthHit, last.letter) # Font(FirstWidthHit).monospace
    /\ last.ret = Font(FirstWidthHit).monospace

\* C6: get_bpp returns the bpp of the first table in link order whose range
\* contains the letter, whether or not the table has the glyph, and 0 when
\* there is none.
C6_BppByRange ==
    Returned("get_bpp")
        => last.ret = IF RangeHits = {} THEN 0
                      ELSE Font(Chain(next_page, last.font)[Min(RangeHits)]).bpp

\* get_bpp answered from a table that lacks the glyph, while get_bitmap on
\* the same chain answers from a later table with another bpp.
C6_Witness ==
    /\ Returned("get_bpp")
    /\ RangeHits # {} /\ BitmapHits # {}
    /\ Min(RangeHits) < Min(BitmapHits)
    /\ last.ret = Font(Chain(next_page, last.font)[Min(RangeHits)]).bpp
    /\ last.ret # Font(FirstBitmapHit).bpp
    /\ lv_font_get_bitmap(last.font, last.letter).v
           = get_bitmap(FirstBitmapHit, last.letter)

-----------------------------------------------------------------------------
(* Steps of the composition calls: the call just made is last', the links  *)
(* before it next_page and after it next_page'.                            *)

AddStep == last'.op = "add"

RemoveStep == last'.op = "remove"

LastOf(q) == q[Len(q)]

\* C4: lv_font_add(child, parent) with parent non-null on a NULL-terminated
\* chain returns having set only the next_page of the chain's last table,
\* to child: the tables reachable from parent before keep their order and
\* child follows them.  With parent NULL nothing changes.
C4_Append ==
    [][/\ AddStep /\ last'.font # NULL /\ NullTerminated(next_page, last'.font)
           => /\ status' = "ok"
              /\ next_page' = [next_page EXCEPT
                     ![LastOf(Chain(next_page, last'.font))] = last'.child]
              /\ SubSeq(Chain(next_page', last'.font), 1,
                        Len(Chain(next_page, last'.font)))
                     = Chain(next_page, last'.font)
       /\ AddStep /\ last'.font = NULL
           => status' = "ok" /\ next_page' = next_page]_vars

\* add(B, A) then add(C, A) from A -> NULL: the chain is A -> B -> C -> NULL.
C4_Witness ==
    /\ status = "ok"
    /\ last.op = "add" /\ last.child = 3 /\ last.font = 1
    /\ Chain(next_page, 1) = <<1, 2, 3>>
    /\ next_page[3] = NULL

\* C5: lv_font_remove(child, parent), child being the next_page of a table
\* reachable from parent, returns having set the next_page of the first such
\* table to child->next_page and changed no other link; child->next_page
\* keeps its value.  With a NULL argument nothing changes.
C5_Splice ==
    [][/\ RemoveStep /\ last'.font # NULL /\ last'.child # NULL
          /\ Linked(next_page, last'.child, last'.font)
           => LET ch == Chain(next_page, last'.font)
                  p == ch[Min({i \in 1..Len(ch) : next_page[ch[i]] = last'.child})]
              IN  /\ status' = "ok"
                  /\ next_page' = [next_page EXCEPT ![p] = next_page[last'.child]]
                  /\ next_page'[last'.child] = next_page[last'.child]
       /\ RemoveStep /\ (last'.font = NULL \/ last'.child = NULL)
           => status' = "ok" /\ next_page' = next_page]_vars

\* remove(B, A) on A -> B -> C: now A -> C, and B->next_page is still C.
C5_Witness ==
    /\ status = "ok"
    /\ last.op = "remove" /\ last.child = 2 /\ last.font = 1
    /\ next_page[1] = 3 /\ next_page[2] = 3 /\ next_page[3] = NULL

\* child and parent are non-null, parent's chain is NULL-terminated and
\* child is the next_page of none of its tables
Unlinked(np, child, parent) ==
    /\ child # NULL /\ parent # NULL
    /\ NullTerminated(np, parent)
    /\ ~Linked(np, child, parent)

QueryOps == {"is_monospace", "get_bitmap", "get_width", "get_real_width", "get_bpp"}

\* the add calls whose child chain shares no table with the parent chain
DisjointAdd(np, child, parent) ==
    Range(Chain(np, child)) \cap Range(Chain(np, parent)) = {}

\* C10: from acyclic links, an add whose child chain shares no table with
\* the parent chain, and a remove of a child linked under parent, leave the
\* links acyclic; and every query on a NULL-terminated chain returns.
C10_Acyclic ==
    /\ [][/\ AddStep /\ Acyclic(next_page)
             /\ DisjointAdd(next_page, last'.child, last'.font)
              => status' = "ok" /\ Acyclic(next_page')
          /\ RemoveStep /\ Acyclic(next_page) /\ last'.font # NULL
             /\ last'.child # NULL /\ Linked(next_page, last'.child, last'.font)
              => status' = "ok" /\ Acyclic(next_page')]_vars
    /\ [](last.op \in QueryOps /\ NullTerminated(next_page, last.font)
              => status = "ok")

\* A query found no glyph in a chain of three tables, built by adds and
\* removes that meet the preconditions, and returned.
C10_Witness ==
    /\ Returned("get_bitmap")
    /\ Acyclic(next_page)
    /\ Len(Chain(next_page, last.font)) = 3
    /\ BitmapHits = {}
    /\ last.ret = NULL

\* remove(B, A) on A -> B -> C, then add(B, A): the cycle C -> B -> C.
C10_CycleClosed ==
    /\ last.op = "add" /\ last.child = 2 /\ last.font = 1
    /\ next_page[1] = 3 /\ next_page[3] = 2 /\ next_page[2] = 3

-----------------------------------------------------------------------------
\* C7 as stated: the sparse lookups hit exactly when the code point is in
\* [unicode_first, unicode_last] and is some unicode_list[i], and then
\* return glyph_dsc[i].w_px and glyph_bitmap + glyph_dsc[i].glyph_index.
C7_Sparse ==
    LET t == Font(last.font)
        at == {i \in 1..t.glyph_cnt : t.unicode_list[i] = last.letter}
        present == Contains(last.font, last.letter) /\ at # {}
    IN  /\ last.op = "get_width_sparse"
            => last.ret = IF present THEN t.glyph_dsc[Min(at)].w_px ELSE -1
        /\ last.op = "get_bitmap_sparse"
            => last.ret = IF present
                          THEN t.glyph_bitmap + t.glyph_dsc[Min(at)].glyph_index
                          ELSE NULL

\* C7 on the spec's example: in the list <<65, 90, 200>>, 66 misses, 90 hits
\* the second descriptor and 64 misses.
C7_Example ==
    last.op = "get_width_sparse"
    /\ Font(last.font).unicode_list = <<U32(65), U32(90), U32(200)>>
        => /\ last.letter = U32(66) => last.ret = -1
           /\ last.letter = U32(90) => last.ret = Font(last.font).glyph_dsc[2].w_px
           /\ last.letter = U32(64) => last.ret = -1

\* C9 as stated: lv_font_codeCompare(ref, element) is negative exactly when
\* ref < element, zero exactly when they are equal, positive exactly when
\* ref > element.
C9_ThreeWay ==
    last.op = "codeCompare"
        => /\ last.ret < 0 <=> ULt(last.letter, last.elem)
           /\ last.ret = 0 <=> last.letter = last.elem
           /\ last.ret > 0 <=> ULt(last.elem, last.letter)

=============================================================================
